---------------------------- MODULE Spec2Model ----------------------------
(***************************************************************************)
(* Model of articles_spider.py: the tag crawler of a blog.  The model      *)
(* covers HttpClient.get (tenacity retry), get_all_tags,                   *)
(* get_article_links (pagination and deduplication), crawl_single_tag      *)
(* (resume check, fetch, save, done marker), save_article_to_markdown,     *)
(* crawl_all (sequential loop and thread pool), parse_args (the delays)   *)
(* and main (exit status), and of rename_articles.py: process_directory    *)
(* and process_file.                                                       *)
(*                                                                         *)
(* Strings that the code inspects character by character (tag names,      *)
(* titles) are sequences of one-character strings.  A URL is a record of   *)
(* the parts the code's regular expressions and urljoin distinguish.       *)
(***************************************************************************)
EXTENDS Integers, Sequences, FiniteSets, TLC

(***************************************************************************)
(* Bounds of the model.                                                    *)
(***************************************************************************)
MaxPages == 2      \* listing pages of the site
MaxAnchors == 2    \* anchors of one listing page
MaxRuns == 2       \* runs of the program over the same output directory
MaxFaults == 2     \* operations that fail (a get that raises, a write, a marker)

(***************************************************************************)
(* Program constants.                                                      *)
(***************************************************************************)
StopAfterAttempt == 3     \* stop_after_attempt(3)
BadStatus == 400          \* resp.status_code >= 400
MaxNameLen == 180         \* sanitized[:180]
MaxWorkers == 8           \* min(max(cfg.threads, 1), 8)

PageIds == 1..MaxPages

Max2(a, b) == IF a >= b THEN a ELSE b
Min2(a, b) == IF a <= b THEN a ELSE b

SeqsUpTo(S, n) == UNION {[1..k -> S] : k \in 0..n}

Range(s) == {s[i] : i \in DOMAIN s}

(***************************************************************************)
(* sanitize_filename: replace the characters illegal in a path by "_",     *)
(* strip, collapse runs of blanks to one blank, cut to 180 characters.     *)
(***************************************************************************)
IllegalChars == {"\\", "/", ":", "*", "?", "\"", "<", ">", "|"}

ReplaceIllegal(s) == [i \in DOMAIN s |-> IF s[i] \in IllegalChars THEN "_" ELSE s[i]]

RECURSIVE LStrip(_)
LStrip(s) == IF s # <<>> /\ Head(s) = " " THEN LStrip(Tail(s)) ELSE s

RECURSIVE RStrip(_)
RStrip(s) ==
  IF s # <<>> /\ s[Len(s)] = " " THEN RStrip(SubSeq(s, 1, Len(s) - 1)) ELSE s

Strip(s) == RStrip(LStrip(s))

RECURSIVE CollapseBlanks(_)
CollapseBlanks(s) ==
  IF Len(s) <= 1 THEN s
  ELSE IF s[1] = " " /\ s[2] = " " THEN CollapseBlanks(Tail(s))
  ELSE <<s[1]>> \o CollapseBlanks(Tail(s))

sanitize_filename(name) ==
  LET sanitized == CollapseBlanks(Strip(ReplaceIllegal(name)))
  IN  IF Len(sanitized) > MaxNameLen THEN SubSeq(sanitized, 1, MaxNameLen)
      ELSE sanitized

(***************************************************************************)
(* URLs.  kind "art" is a path /p/<n>.html, kind "list" a listing page     *)
(* <n> of a tag, kind "other" any other path, kind "js" the URL            *)
(* javascript:void(0).  tail is what follows the path: nothing, a          *)
(* fragment "#c" or a query "?q".                                          *)
(***************************************************************************)
Url(k, s, h, n, t) == [kind |-> k, scheme |-> s, host |-> h, n |-> n, tail |-> t]

JsUrl == Url("js", "javascript", "", 0, "")

(***************************************************************************)
(* An href as written in a page: form "abs" starts with http, "schemerel"  *)
(* starts with //, "rel" is a path on the current host, "frag" is "#"      *)
(* alone, "js" is javascript:void(0).                                      *)
(***************************************************************************)
Href(f, k, s, h, n, t) ==
  [form |-> f, kind |-> k, scheme |-> s, host |-> h, n |-> n, tail |-> t]

HashHref == Href("frag", "other", "", "", 0, "")
NoHref == Href("none", "other", "", "", 0, "")
JsHref == Href("js", "js", "javascript", "", 0, "")

\* requests.compat.urljoin(current_url, href)
urljoin(current_url, href) ==
  CASE href.form = "js" -> JsUrl
    [] href.form = "frag" ->
         Url(current_url.kind, current_url.scheme, current_url.host, current_url.n,
             IF current_url.tail = "#c" THEN "" ELSE current_url.tail)
    [] href.form = "schemerel" ->
         Url(href.kind, current_url.scheme, href.host, href.n, href.tail)
    [] OTHER ->
         Url(href.kind, current_url.scheme, current_url.host, href.n, href.tail)

normalize_url(current_url, href) ==
  IF href.form = "abs" THEN Url(href.kind, href.scheme, href.host, href.n, href.tail)
  ELSE IF href.form = "schemerel"
         THEN Url(href.kind, "https", href.host, href.n, href.tail)
  ELSE urljoin(current_url, href)

\* ARTICLE_LINK_RE = /p/(\d+)\.html($|#)
ArticleLinkMatch(url) == url.kind = "art" /\ url.tail \in {"", "#c"}

is_article_link(url) == ArticleLinkMatch(url)

\* the value of extract_article_id for a URL the expression does not match
NoId == -1

extract_article_id(url) == IF ArticleLinkMatch(url) THEN url.n ELSE NoId


(***************************************************************************)
(* HttpClient.get.  A response of the server to one attempt is an          *)
(* exception of session.get or a status code.                              *)
(***************************************************************************)
StatusCodes == {200, 399, 400, 503}

Responses ==
  [exc : {"none"}, status : StatusCodes]
    \cup {[exc |-> "RequestException", status |-> 0], [exc |-> "Other", status |-> 0]}

\* One execution of the body of get: the text, a RequestError, or another exception.
AttemptOutcome(resp) ==
  IF resp.exc = "RequestException" THEN "RequestError"
  ELSE IF resp.exc # "none" THEN "Other"
  ELSE IF resp.status >= BadStatus THEN "RequestError"
  ELSE "text"

\* A decorator that stops one attempt later.
TenacityOneMore(attempt, outcome) ==
  IF outcome = "text" THEN "return"
  ELSE IF outcome # "RequestError" THEN "propagate"
  ELSE IF attempt > StopAfterAttempt THEN "raise"
  ELSE "retry"

\* The retry decorator, after attempt number attempt ended with outcome.
TenacityDecision(attempt, outcome) ==
  IF outcome = "text" THEN "return"
  ELSE IF outcome # "RequestError" THEN "propagate"
  ELSE IF attempt >= StopAfterAttempt THEN "raise"
  ELSE "retry"

GetDecision(attempt, resp) == TenacityDecision(attempt, AttemptOutcome(resp))

\* The answers of the server to the attempts of one call, one more than the call
\* may use.
Scripts == [1..(StopAfterAttempt + 1) -> Responses]

\* HttpClient.get on a script: how the call ends ("return", "raise" a
\* RequestError, "propagate" another exception) and after how many attempts.
RECURSIVE GetFrom(_, _)
GetFrom(resps, attempt) ==
  LET d == GetDecision(attempt, resps[attempt])
  IN  IF d = "retry" /\ attempt < Len(resps) THEN GetFrom(resps, attempt + 1)
      ELSE [result |-> d, attempts |-> attempt]

get(resps) == GetFrom(resps, 1)

\* The ways a call of get can end.
GetResults == {get(resps).result : resps \in Scripts}

GetReturns == "return" \in GetResults
GetRaises == GetResults \cap {"raise", "propagate"} # {}

(***************************************************************************)
(* The site.  A listing page holds the anchors of its content scope, the   *)
(* anchors matched by the fallback selectors, and its next-page anchors    *)
(* (by text, by rel=next).                                                 *)
(***************************************************************************)
ListUrl(k) == Url("list", "https", "h", k, "")

ListHref(k) == Href("abs", "list", "https", "h", k, "")

H1 == Href("abs", "art", "https", "h", 1, "")
H1f == Href("rel", "art", "", "", 1, "#c")
H2 == Href("schemerel", "art", "", "h", 2, "")
H2q == Href("rel", "art", "", "", 2, "?q")
H3 == Href("rel", "art", "", "", 3, "")

AnchorHrefs == {H1, H1f, H2}

Page(a, t, nt, nr) == [anchors |-> a, titled |-> t, nextText |-> nt, nextRel |-> nr]

EmptyPage == Page(<<>>, <<>>, NoHref, NoHref)

\* find_next_page_url: an anchor whose text says next page, else rel=next.  The
\* third lookup (inside a pager) finds only anchors the first lookup has found.
find_next_page_url(page) ==
  IF page.nextText # NoHref THEN page.nextText
  ELSE IF page.nextRel # NoHref THEN page.nextRel
  ELSE NoHref

NormalizeAll(current_url, hrefs) ==
  [i \in DOMAIN hrefs |-> normalize_url(current_url, hrefs[i])]

\* page_links of one iteration of get_article_links
PageLinks(current_url, page) ==
  LET first == SelectSeq(NormalizeAll(current_url, page.anchors), is_article_link)
  IN  IF first # <<>> THEN first
      ELSE SelectSeq(NormalizeAll(current_url, page.titled), is_article_link)

\* "if u not in seen": the key under which a link counts as seen
SeenKey(u) == u

\* A loop that appends every link of the page, seen or not.
AppendAll(acc, page_links) ==
  [seen |-> acc.seen \cup {SeenKey(u) : u \in Range(page_links)},
   all_links |-> acc.all_links \o page_links]

RECURSIVE AppendNew(_, _)
AppendNew(acc, page_links) ==
  IF page_links = <<>> THEN acc
  ELSE LET u == Head(page_links)
       IN  IF SeenKey(u) \in acc.seen THEN AppendNew(acc, Tail(page_links))
           ELSE AppendNew([seen |-> acc.seen \cup {SeenKey(u)},
                           all_links |-> Append(acc.all_links, u)],
                          Tail(page_links))

\* the test that ends the loop once a next href was found
StopsAt(current_url, next_url) ==
  \/ next_url = current_url
  \/ next_url \in {normalize_url(current_url, h) : h \in {HashHref, JsHref}}


(***************************************************************************)
(* Tag names, articles and the index page.                                 *)
(***************************************************************************)
T1 == <<"a", "/", "b">>
T2 == <<"a", ":", "b">>
T3 == <<"c">>

TagNames == {T1, T2, T3}

ArticleIds == {1, 2, 3}

TagAnchor(name, tagPath, start) == [name |-> name, tagPath |-> tagPath, start |-> start]

\* An article page: the text of the title element, whether a <title> exists and
\* its text, whether a body container exists.
ArticlePage(post_title, has_title_tag, page_title, has_body) ==
  [post_title |-> post_title, has_title_tag |-> has_title_tag,
   page_title |-> page_title, has_body |-> has_body]

Untitled == <<"u", "n", "t", "i", "t", "l", "e", "d">>

PlainArticle == ArticlePage(<<"x">>, TRUE, <<"t">>, TRUE)

DefaultArticles == [i \in ArticleIds |-> PlainArticle]

VARIABLES
  cfg,        \* Config of the current run
  site,       \* the blog: index page, listing pages, article pages
  run,        \* number of the current run of the program
  phase,      \* position of main: "discover", "crawl", "exited"
  exitCode,   \* exit status of the current run, once exited
  items,      \* list(tags.items()): the discovered tag names, in order
  job,        \* per tag name: the state of its crawl_single_tag call
  dirs,       \* directories that exist under the root
  files,      \* article files that exist: path -> state and content
  markers,    \* done markers that exist: path -> content
  before,     \* the done markers as they were when the current run started
  had,        \* the paths of the article files that existed when the run started
  faults,     \* number of operations that have failed so far
  call,       \* HttpClient.get followed alone: the attempts of one call
  argv,       \* parse_args followed alone: the command line and whether it is parsed
  ren         \* rename_articles.py: the directory tree and the files still to visit

vars ==
  <<cfg, site, run, phase, exitCode, items, job, dirs, files, markers,
    before, had, faults, call, argv, ren>>

fsVars == <<dirs, files, markers>>
mainVars == <<cfg, run, phase, exitCode, items, before, had>>
utilVars == <<argv, ren>>

MaxPageIndex == MaxPages + 1

IdleJob ==
  [pc |-> "idle", current_url |-> ListUrl(1), page_index |-> 1, all_links |-> <<>>,
   seen |-> {}, idx |-> 0, index |-> 0, delayed |-> FALSE,
   saved_path |-> FALSE, starts |-> 0]

NoCall == [state |-> "idle", resps |-> <<>>, result |-> "none", attempts |-> 0]

NoArgv == [state |-> "none"]

NoRen == [state |-> "none", tree |-> <<>>, todo |-> <<>>]

\* crawl_single_tag at link number i of its loop; past the last link it returns.
AtLink(j, i) ==
  IF i > Len(j.all_links)
    THEN [j EXCEPT !.pc = "done", !.idx = i, !.index = 0,
                   !.delayed = FALSE, !.saved_path = FALSE]
    ELSE [j EXCEPT !.pc = "loop", !.idx = i, !.index = 0,
                   !.delayed = FALSE, !.saved_path = FALSE]

\* A worker without the delay.
NoDelay(j) == j

\* random_delay(cfg): the worker has slept since its last request
random_delay(j) == [j EXCEPT !.delayed = TRUE]

\* client.get: the request uses up the delay that preceded it
Requested(j) == [j EXCEPT !.delayed = FALSE]

(***************************************************************************)
(* get_article_links, one iteration of its loop per action.                *)
(***************************************************************************)
\* The get of the current listing page returns: collect, deduplicate, follow next.
ListPage(t) ==
  /\ phase = "crawl"
  /\ job[t].pc = "list"
  /\ GetReturns
  /\ LET j == Requested(job[t])
         page == site.pages[j.current_url.n]
         acc == AppendNew([seen |-> j.seen, all_links |-> j.all_links],
                          PageLinks(j.current_url, page))
         next_href == find_next_page_url(page)
         next_url == normalize_url(j.current_url, next_href)
         last == next_href = NoHref \/ StopsAt(j.current_url, next_url)
     IN  /\ job' = [job EXCEPT ![t] =
                      IF last
                        THEN AtLink([j EXCEPT !.all_links = acc.all_links,
                                                !.seen = acc.seen], 1)
                        ELSE random_delay(
                               [j EXCEPT !.all_links = acc.all_links, !.seen = acc.seen,
                                         !.current_url = next_url,
                                         !.page_index = Min2(j.page_index + 1, MaxPageIndex)])]
  /\ UNCHANGED <<mainVars, site, fsVars, faults, call, utilVars>>



\* A main that ends with status 0 whatever happened.
MainExitZero(exc) == 0

\* main: the exit status.  "except Exception: ... sys.exit(1)"; the end of
\* crawl_all and KeyboardInterrupt leave main by its end, status 0.
MainExit(exc) == IF exc = "Exception" THEN 1 ELSE 0

\* crawl_all, threads <= 1: "for name, url in items: crawl_single_tag(...)" has no
\* handler, the exception reaches main, which exits with status 1.  threads > 1:
\* the future keeps the exception, "fut.result()" raises it into the handler.
TagFailed(t) ==
  /\ job' = [job EXCEPT ![t].pc = "failed"]
  /\ IF cfg.threads <= 1
       THEN phase' = "exited" /\ exitCode' = MainExit("Exception")
       ELSE UNCHANGED <<phase, exitCode>>

ListRaise(t) ==
  /\ faults < MaxFaults
  /\ faults' = faults + 1
  /\ phase = "crawl"
  /\ job[t].pc = "list"
  /\ GetRaises
  /\ TagFailed(t)
  /\ UNCHANGED <<cfg, run, items, before, had, site, fsVars, call, utilVars>>

(***************************************************************************)
(* get_all_tags and the start of crawl_all.                                *)
(***************************************************************************)
Root == <<"root">>
TagDir(tag_name) == <<"root", sanitize_filename(tag_name)>>
DoneDir(tag_name) == <<"root", sanitize_filename(tag_name), ".done">>

\* get_done_marker_path
get_done_marker_path(tag_name, article_id) ==
  [dir |-> sanitize_filename(tag_name), id |-> article_id]

HasName(acc, name) == \E i \in DOMAIN acc : acc[i].name = name

\* "tags[name] = href" for the anchors that pass the tests, in insertion order
RECURSIVE TagsDict(_, _, _)
TagsDict(anchors, only_tags, acc) ==
  IF anchors = <<>> THEN acc
  ELSE LET a == Head(anchors)
           skip == \/ a.name = <<>>
                   \/ ~a.tagPath
                   \/ (only_tags # <<>> /\ a.name \notin Range(only_tags))
       IN  IF skip THEN TagsDict(Tail(anchors), only_tags, acc)
           ELSE IF HasName(acc, a.name)
             THEN TagsDict(Tail(anchors), only_tags,
                           [i \in DOMAIN acc |->
                              IF acc[i].name = a.name THEN [acc[i] EXCEPT !.start = a.start]
                              ELSE acc[i]])
           ELSE TagsDict(Tail(anchors), only_tags,
                         Append(acc, [name |-> a.name, start |-> a.start]))

\* get_all_tags: the tags, or <<>> where it raises RuntimeError
get_all_tags(index, config) ==
  IF ~index.container THEN <<>> ELSE TagsDict(index.anchors, config.only_tags, <<>>)

\* get_all_tags: the get of the index page raises
DiscoverRaise ==
  /\ faults < MaxFaults
  /\ faults' = faults + 1
  /\ phase = "discover"
  /\ GetRaises
  /\ phase' = "exited"
  /\ exitCode' = MainExit("Exception")
  /\ dirs' = dirs \cup {Root}
  /\ UNCHANGED <<cfg, run, items, before, had, site, job, files, markers, call, utilVars>>

PendingJob(start) == [IdleJob EXCEPT !.pc = "pending", !.current_url = ListUrl(start)]

StartOf(tags, name) == (CHOOSE i \in DOMAIN tags : tags[i].name = name)

\* The index page arrives.  No container or no tag: RuntimeError, exit status 1.
\* With no tag to crawl crawl_all returns at once.
Discover ==
  /\ phase = "discover"
  /\ GetReturns
  /\ dirs' = dirs \cup {Root}
  /\ LET tags == get_all_tags(site.index, cfg)
     IN  IF tags = <<>>
           THEN /\ phase' = "exited"
                /\ exitCode' = MainExit("Exception")
                /\ UNCHANGED <<items, job>>
           ELSE /\ phase' = "crawl"
                /\ exitCode' = 0
                /\ items' = [i \in DOMAIN tags |-> tags[i].name]
                /\ job' = [t \in DOMAIN job |->
                             IF HasName(tags, t)
                               THEN PendingJob(tags[StartOf(tags, t)].start)
                               ELSE IdleJob]
  /\ UNCHANGED <<cfg, run, before, had, site, files, markers, faults, call, utilVars>>

Running == {t \in DOMAIN job : job[t].pc \notin {"idle", "pending", "done", "failed"}}

FirstPending(t) ==
  \E i \in DOMAIN items :
    /\ items[i] = t
    /\ job[t].pc = "pending"
    /\ \A k \in 1..(i - 1) : job[items[k]].pc # "pending"

\* A pool of as many workers as threads asks for.
UnclampedWorkers(threads) == Max2(threads, 1)

\* max_workers of the ThreadPoolExecutor
max_workers(threads) == Min2(Max2(threads, 1), MaxWorkers)

\* crawl_single_tag begins: random_delay, then get_article_links
BeginTag(t) ==
  /\ job' = [job EXCEPT ![t] = random_delay([@ EXCEPT !.pc = "list", !.starts = @ + 1])]
  /\ UNCHANGED <<mainVars, site, fsVars, faults, call, utilVars>>

\* threads <= 1: the loop calls crawl_single_tag for the next item
SeqStartTag(t) ==
  /\ phase = "crawl"
  /\ cfg.threads <= 1
  /\ FirstPending(t)
  /\ Running = {}
  /\ BeginTag(t)

\* threads > 1: a free worker of the pool takes the next submitted call
PoolStartTag(t) ==
  /\ phase = "crawl"
  /\ cfg.threads > 1
  /\ FirstPending(t)
  /\ Cardinality(Running) < max_workers(cfg.threads)
  /\ BeginTag(t)

\* crawl_all returns, main logs the end of the task: exit status 0
Finish ==
  /\ phase = "crawl"
  /\ \A i \in DOMAIN items : job[items[i]].pc \in {"done", "failed"}
  /\ phase' = "exited"
  /\ exitCode' = MainExit("none")
  /\ UNCHANGED <<cfg, run, items, before, had, site, job, fsVars, faults, call, utilVars>>


(***************************************************************************)
(* crawl_single_tag: the loop over the links.                              *)
(***************************************************************************)
\* A loop that takes the links from the end of the list.
CurrentUrlReversed(t) == job[t].all_links[Len(job[t].all_links) + 1 - job[t].idx]

\* "for idx, url in enumerate(links, start=1)": the link of the iteration
CurrentUrl(t) == job[t].all_links[job[t].idx]

\* An except clause that goes on to write the marker.
ExceptThenMark(j) == [j EXCEPT !.pc = "mark"]

\* No except clause: the exception leaves crawl_single_tag.
ExceptPropagates(j) == [j EXCEPT !.pc = "failed"]

\* The except clause of the loop: log, go on with the next link.
ExceptHandler(j) == AtLink(j, j.idx + 1)

\* A test that looks the marker up whatever the resume flag says.
ChecksMarkerAlways(config, article_id) == article_id # NoId

\* A test that reads the resume flag the wrong way round.
ChecksMarkerInverted(config, article_id) == ~config.resume /\ article_id # NoId

\* "if cfg.resume and article_id": whether the marker is looked up
ChecksMarker(config, article_id) == config.resume /\ article_id # NoId

\* The head of an iteration: the resume check, then random_delay.
ResumeCheck(t) ==
  /\ phase = "crawl"
  /\ job[t].pc = "loop"
  /\ LET article_id == extract_article_id(CurrentUrl(t))
         marker == get_done_marker_path(t, article_id)
     IN  IF ChecksMarker(cfg, article_id)
           THEN /\ dirs' = dirs \cup {TagDir(t), DoneDir(t)}
                /\ job' = [job EXCEPT ![t] =
                             IF marker \in DOMAIN markers THEN AtLink(@, @.idx + 1)
                             ELSE random_delay([@ EXCEPT !.pc = "fetch"])]
           ELSE /\ dirs' = dirs
                /\ job' = [job EXCEPT ![t] = random_delay([@ EXCEPT !.pc = "fetch"])]
  /\ UNCHANGED <<mainVars, site, files, markers, faults, call, utilVars>>

\* the get raises: the except clause of the loop catches the exception
ArticleRaise(t) ==
  /\ faults < MaxFaults
  /\ faults' = faults + 1
  /\ phase = "crawl"
  /\ job[t].pc = "fetch"
  /\ GetRaises
  /\ job' = [job EXCEPT ![t] = ExceptHandler(@)]
  /\ UNCHANGED <<mainVars, site, fsVars, call, utilVars>>

\* extract_title_and_body: the title
extract_title(page) ==
  IF Strip(page.post_title) # <<>> THEN Strip(page.post_title)
  ELSE IF page.has_title_tag THEN Strip(page.page_title)
  ELSE Untitled

\* save_article_to_markdown: the path tried after index collisions
SavePath(tag_name, title, article_id, index) ==
  [dir |-> sanitize_filename(tag_name),
   name |-> IF sanitize_filename(title) # <<>> THEN sanitize_filename(title) ELSE Untitled,
   id |-> article_id,
   index |-> index]

PathOf(t) ==
  SavePath(t, extract_title(site.articles[CurrentUrl(t).n]),
           extract_article_id(CurrentUrl(t)), job[t].index)

\* The article page arrives.  Without a body container extract_title_and_body
\* raises RuntimeError; else the text is converted and save_article_to_markdown
\* starts: ensure_dir(tag_dir), then the first path.
ArticleFetched(t) ==
  /\ phase = "crawl"
  /\ job[t].pc = "fetch"
  /\ GetReturns
  /\ IF site.articles[CurrentUrl(t).n].has_body
       THEN /\ job' = [job EXCEPT ![t] =
                         Requested([@ EXCEPT !.pc = "save_check", !.index = 0])]
            /\ dirs' = dirs \cup {TagDir(t)}
       ELSE /\ job' = [job EXCEPT ![t] = ExceptHandler(@)]
            /\ dirs' = dirs
  /\ UNCHANGED <<mainVars, site, files, markers, faults, call, utilVars>>

\* A save that opens the first path without a look at what exists.
SaveNoCheck(t) ==
  /\ phase = "crawl"
  /\ job[t].pc = "save_check"
  /\ job' = [job EXCEPT ![t].pc = "save_open"]
  /\ UNCHANGED <<mainVars, site, fsVars, faults, call, utilVars>>

\* "while os.path.exists(path)": one test of the loop
SaveCheck(t) ==
  /\ phase = "crawl"
  /\ job[t].pc = "save_check"
  /\ job' = [job EXCEPT ![t] =
               IF PathOf(t) \in DOMAIN files THEN [@ EXCEPT !.index = @ + 1]
               ELSE [@ EXCEPT !.pc = "save_open"]]
  /\ UNCHANGED <<mainVars, site, fsVars, faults, call, utilVars>>

\* A file (its content is the article it holds): "open" while a writer holds it
\* open with nothing written, "partial" closed after a write that failed, "full"
\* closed with the whole content.
FileRec(state, writer, content) == [state |-> state, writer |-> writer, content |-> content]

NoWriter == <<>>

PutFile(fs, path, rec) == [p \in DOMAIN fs \cup {path} |-> IF p = path THEN rec ELSE fs[p]]

\* open(path, "w"): the file is created, or cut to length 0 if it exists
SaveOpen(t) ==
  /\ phase = "crawl"
  /\ job[t].pc = "save_open"
  /\ files' = PutFile(files, PathOf(t), FileRec("open", t, CurrentUrl(t).n))
  /\ job' = [job EXCEPT ![t].pc = "save_write"]
  /\ UNCHANGED <<mainVars, site, dirs, markers, faults, call, utilVars>>

\* A loop that writes no marker after the save.
AfterSaveNoMark(j, article_id) == AtLink(j, j.idx + 1)

\* where crawl_single_tag goes after save_article_to_markdown returned
AfterSave(j, article_id) ==
  IF article_id # NoId THEN [j EXCEPT !.pc = "mark", !.saved_path = TRUE]
  ELSE AtLink(j, j.idx + 1)

\* f.write and the end of the with block; save_article_to_markdown returns
SaveWrite(t) ==
  /\ phase = "crawl"
  /\ job[t].pc = "save_write"
  /\ files' = PutFile(files, PathOf(t), FileRec("full", NoWriter, CurrentUrl(t).n))
  /\ job' = [job EXCEPT ![t] = AfterSave(@, extract_article_id(CurrentUrl(t)))]
  /\ UNCHANGED <<mainVars, site, dirs, markers, faults, call, utilVars>>

\* f.write raises OSError: the with block closes the file as it is
SaveWriteFail(t) ==
  /\ faults < MaxFaults
  /\ faults' = faults + 1
  /\ phase = "crawl"
  /\ job[t].pc = "save_write"
  /\ files' = PutFile(files, PathOf(t), FileRec("partial", NoWriter, CurrentUrl(t).n))
  /\ job' = [job EXCEPT ![t] = ExceptHandler(@)]
  /\ UNCHANGED <<mainVars, site, dirs, markers, call, utilVars>>

MarkerOf(t) == get_done_marker_path(t, extract_article_id(CurrentUrl(t)))

\* A marker: its content (the URL), and for the record whether
\* save_article_to_markdown had returned in that iteration.
MarkerRec(t) == [url |-> CurrentUrl(t), after_save |-> job[t].saved_path]

\* get_done_marker_path, open(marker, "w"), f.write(url), the log line
MarkDone(t) ==
  /\ phase = "crawl"
  /\ job[t].pc = "mark"
  /\ dirs' = dirs \cup {TagDir(t), DoneDir(t)}
  /\ markers' = PutFile(markers, MarkerOf(t), MarkerRec(t))
  /\ job' = [job EXCEPT ![t] = AtLink(@, @.idx + 1)]
  /\ UNCHANGED <<mainVars, site, files, faults, call, utilVars>>

\* makedirs or open raises OSError: no marker, the except clause of the loop
MarkFail(t) ==
  /\ faults < MaxFaults
  /\ faults' = faults + 1
  /\ phase = "crawl"
  /\ job[t].pc = "mark"
  /\ job' = [job EXCEPT ![t] = ExceptHandler(@)]
  /\ UNCHANGED <<mainVars, site, fsVars, call, utilVars>>

(***************************************************************************)
(* The program: runs of main, one after the other, over one output         *)
(* directory and an unchanged site.                                        *)
(***************************************************************************)
Configs == [threads : {1, 2}, resume : BOOLEAN, only_tags : {<<>>, <<T2>>}]

\* Tags a/b and a:b share the directory a_b.  Tag a/b lists article 1 twice, by
\* two URLs; tag a:b lists article 1.
SiteA ==
  [index |-> [container |-> TRUE,
              anchors |-> <<TagAnchor(T1, TRUE, 1), TagAnchor(T2, TRUE, 2)>>],
   pages |-> [k \in PageIds |->
                IF k = 1 THEN Page(<<H1, H1f>>, <<>>, NoHref, NoHref)
                ELSE IF k = 2 THEN Page(<<H1>>, <<>>, NoHref, NoHref)
                ELSE EmptyPage],
   articles |-> DefaultArticles]

\* Tag a/b lists article 1 on its first page and article 2 on its second; tag c
\* lists article 2, whose page has no body container.  The index names tag a/b
\* twice and gives a:b a link that is not a tag link.
SiteB ==
  [index |-> [container |-> TRUE,
              anchors |-> <<TagAnchor(T1, TRUE, 1), TagAnchor(T3, TRUE, 2),
                            TagAnchor(T2, FALSE, 1), TagAnchor(T1, TRUE, 1)>>],
   pages |-> [k \in PageIds |->
                IF k = 1 THEN Page(<<H1>>, <<>>, ListHref(2), NoHref)
                ELSE IF k = 2 THEN Page(<<H2>>, <<>>, NoHref, NoHref)
                ELSE EmptyPage],
   articles |-> [i \in ArticleIds |->
                   IF i = 1 THEN PlainArticle
                   ELSE ArticlePage(<<" ">>, FALSE, <<>>, FALSE)]]

\* The index page has no tag container.
SiteC == [SiteA EXCEPT !.index.container = FALSE]

\* One tag, c, with articles 1 and 2 on its first listing page and article 3 on
\* its second; the three articles have the same title.
SiteD ==
  [index |-> [container |-> TRUE, anchors |-> <<TagAnchor(T3, TRUE, 1)>>],
   pages |-> [k \in PageIds |->
                IF k = 1 THEN Page(<<H1, H2>>, <<>>, NoHref, ListHref(2))
                ELSE IF k = 2 THEN Page(<<H3>>, <<>>, NoHref, NoHref)
                ELSE EmptyPage],
   articles |-> DefaultArticles]

MainSites == {SiteA, SiteB, SiteC, SiteD}

FreshJobs == [t \in TagNames |-> IdleJob]

Init ==
  /\ cfg \in Configs
  /\ site \in MainSites
  /\ run = 1
  /\ phase = "discover"
  /\ exitCode = 0
  /\ items = <<>>
  /\ job = FreshJobs
  /\ dirs = {}
  /\ files = <<>>
  /\ markers = <<>>
  /\ before = <<>>
  /\ had = {}
  /\ faults = 0
  /\ call = NoCall
  /\ argv = NoArgv
  /\ ren = NoRen

\* The program is started again, with the files of the earlier runs in place.
NewRun ==
  /\ phase = "exited"
  /\ run < MaxRuns
  /\ run' = run + 1
  /\ cfg' \in {c \in Configs : c.threads = cfg.threads}
  /\ phase' = "discover"
  /\ exitCode' = 0
  /\ items' = <<>>
  /\ job' = FreshJobs
  /\ before' = markers
  /\ had' = DOMAIN files
  /\ UNCHANGED <<site, fsVars, faults, call, utilVars>>

TagStep(t) ==
  \/ SeqStartTag(t)
  \/ PoolStartTag(t)
  \/ ListPage(t)
  \/ ListRaise(t)
  \/ ResumeCheck(t)
  \/ ArticleRaise(t)
  \/ ArticleFetched(t)
  \/ SaveCheck(t)
  \/ SaveOpen(t)
  \/ SaveWrite(t)
  \/ SaveWriteFail(t)
  \/ MarkDone(t)
  \/ MarkFail(t)

Next ==
  \/ DiscoverRaise
  \/ Discover
  \/ Finish
  \/ NewRun
  \/ \E t \in TagNames : TagStep(t)

Spec == Init /\ [][Next]_vars

(***************************************************************************)
(* get_article_links alone: one call, on the listing of tag T1, over every *)
(* site of the bounds, every get answered with a page.                     *)
(***************************************************************************)
DefaultConfig == [threads |-> 1, resume |-> TRUE, only_tags |-> <<>>]

OneTagIndex == [container |-> TRUE, anchors |-> <<TagAnchor(T1, TRUE, 1)>>]

HasArticleLink(hrefs) ==
  \E i \in DOMAIN hrefs : is_article_link(normalize_url(ListUrl(1), hrefs[i]))

NextHrefs == {NoHref, HashHref, JsHref} \cup {ListHref(k) : k \in PageIds}

\* The pages of the bounds.  The fallback anchors are drawn only where the first
\* pass finds no article link, the rel=next anchor only where no anchor says next.
LinksPages ==
  {p \in {Page(a, t, nt, nr) :
            a \in SeqsUpTo(AnchorHrefs \cup {H2q}, MaxAnchors), t \in {<<>>, <<H2>>},
            nt \in NextHrefs, nr \in {NoHref, ListHref(MaxPages)}} :
     /\ HasArticleLink(p.anchors) => p.titled = <<>>
     /\ p.nextText # NoHref => p.nextRel = NoHref}

ListingJob == random_delay([IdleJob EXCEPT !.pc = "list", !.starts = 1])

LinksStart(ps) ==
  /\ cfg = DefaultConfig
  /\ site = [index |-> OneTagIndex, pages |-> ps, articles |-> DefaultArticles]
  /\ run = 1
  /\ phase = "crawl"
  /\ exitCode = 0
  /\ items = <<T1>>
  /\ job = [t \in TagNames |-> IF t = T1 THEN ListingJob ELSE IdleJob]
  /\ dirs = {}
  /\ files = <<>>
  /\ markers = <<>>
  /\ before = <<>>
  /\ had = {}
  /\ faults = 0
  /\ call = NoCall
  /\ argv = NoArgv
  /\ ren = NoRen

LinksInit == \E ps \in [PageIds -> LinksPages] : LinksStart(ps)

LinksNext == \E t \in TagNames : ListPage(t)

\* The loop is sequential code of one thread: it keeps running while it can.
LinksSpec == LinksInit /\ [][LinksNext]_vars /\ WF_vars(LinksNext)

Returned(t) == job[t].pc \in {"loop", "done"}


(***************************************************************************)
(* get_article_links over a listing of N sequential pages: page k links    *)
(* to page k+1 (by text or by rel=next), page N has no next link.          *)
(***************************************************************************)
SeqPages ==
  {p \in {Page(a, t, NoHref, NoHref) :
            a \in SeqsUpTo(AnchorHrefs, MaxAnchors), t \in {<<>>, <<H2>>}} :
     HasArticleLink(p.anchors) => p.titled = <<>>}

IsSequential(ps, N) ==
  \A k \in PageIds :
    /\ k < N => find_next_page_url(ps[k]) = ListHref(k + 1)
    /\ k = N => find_next_page_url(ps[k]) = NoHref
    /\ k > N => ps[k] = EmptyPage

WithNext(p, k, via) ==
  IF via = "text" THEN [p EXCEPT !.nextText = ListHref(k + 1)]
  ELSE [p EXCEPT !.nextRel = ListHref(k + 1)]

SeqInit ==
  \E N \in PageIds, via \in {"text", "rel"} :
    \E ps \in [1..N -> SeqPages] :
      LinksStart([k \in PageIds |->
                    IF k < N THEN WithNext(ps[k], k, via)
                    ELSE IF k = N THEN ps[k] ELSE EmptyPage])

SeqLinksSpec == SeqInit /\ [][LinksNext]_vars

\* The number of sequential pages of the site.
SeqLength == CHOOSE N \in PageIds : IsSequential(site.pages, N)

RECURSIVE Dedup(_)
Dedup(s) ==
  IF s = <<>> THEN <<>>
  ELSE LET d == Dedup(SubSeq(s, 1, Len(s) - 1))
       IN  IF s[Len(s)] \in Range(d) THEN d ELSE Append(d, s[Len(s)])

LinksOfPage(k) == PageLinks(ListUrl(k), site.pages[k])

RECURSIVE ConcatPages(_)
ConcatPages(n) == IF n = 0 THEN <<>> ELSE ConcatPages(n - 1) \o Dedup(LinksOfPage(n))

PagesDisjoint ==
  \A k1, k2 \in 1..SeqLength :
    k1 # k2 => Range(LinksOfPage(k1)) \cap Range(LinksOfPage(k2)) = {}

NoRepeat(s) == \A i, k \in DOMAIN s : i # k => s[i] # s[k]

\* C9: over N sequential listing pages with pairwise disjoint article links,
\* get_article_links returns the links of page 1, then of page 2, ... each page's
\* links in their order on the page and once each: the length is the sum of the
\* pages' counts of distinct links and no link occurs twice.
C9_UnionInFirstSeenOrder ==
  (Returned(T1) /\ PagesDisjoint) =>
    /\ job[T1].all_links = ConcatPages(SeqLength)
    /\ NoRepeat(job[T1].all_links)

C9_Witness ==
  /\ Returned(T1)
  /\ PagesDisjoint
  /\ SeqLength = 2
  /\ Len(LinksOfPage(1)) = 2
  /\ Len(Dedup(LinksOfPage(1))) = 2
  /\ Len(job[T1].all_links) = 3

\* C7: the list returned by get_article_links holds no two entries with the
\* same article identifier.
C7_NoDuplicateIds ==
  \A t \in TagNames :
    Returned(t) =>
      \A i, k \in DOMAIN job[t].all_links :
        i # k => extract_article_id(job[t].all_links[i])
                   # extract_article_id(job[t].all_links[k])

\* C8: get_article_links returns, whatever the next-page links point to.
C8_LinksTerminate == <>Returned(T1)


(***************************************************************************)
(* HttpClient.get alone: calls over every script of server answers.        *)
(***************************************************************************)
GetInit ==
  /\ cfg = DefaultConfig
  /\ site = SiteA
  /\ run = 1
  /\ phase = "exited"
  /\ exitCode = 0
  /\ items = <<>>
  /\ job = FreshJobs
  /\ dirs = {}
  /\ files = <<>>
  /\ markers = <<>>
  /\ before = <<>>
  /\ had = {}
  /\ faults = 0
  /\ call = NoCall
  /\ argv = NoArgv
  /\ ren = NoRen

GetCall ==
  /\ \E resps \in Scripts :
       call' = [state |-> "done", resps |-> resps, result |-> get(resps).result,
                attempts |-> get(resps).attempts]
  /\ UNCHANGED <<mainVars, site, job, fsVars, faults, utilVars>>

GetNext == GetCall

GetSpec == GetInit /\ [][GetNext]_vars

(***************************************************************************)
(* crawl_all alone: one tag more than the pool may hold workers, each with *)
(* one empty listing page, under thread counts below, within and above the *)
(* range of the pool.                                                      *)
(***************************************************************************)
NumPoolTags == MaxWorkers + 1

\* the tag names g, gg, ggg, ...
PoolTag(i) == [k \in 1..i |-> "g"]

PoolTagNames == {PoolTag(i) : i \in 1..NumPoolTags}

PoolSite ==
  [index |-> [container |-> TRUE,
              anchors |-> [i \in 1..NumPoolTags |-> TagAnchor(PoolTag(i), TRUE, 1)]],
   pages |-> [k \in PageIds |-> EmptyPage],
   articles |-> DefaultArticles]

ThreadValues == {-1, 0, 1, 2, MaxWorkers, MaxWorkers + 1, MaxWorkers + 2}

PoolInit ==
  /\ cfg \in [threads : ThreadValues, resume : {TRUE}, only_tags : {<<>>}]
  /\ site = PoolSite
  /\ run = 1
  /\ phase = "discover"
  /\ exitCode = 0
  /\ items = <<>>
  /\ job = [t \in PoolTagNames |-> IdleJob]
  /\ dirs = {}
  /\ files = <<>>
  /\ markers = <<>>
  /\ before = <<>>
  /\ had = {}
  /\ faults = 0
  /\ call = NoCall
  /\ argv = NoArgv
  /\ ren = NoRen

PoolNext ==
  \/ Discover
  \/ Finish
  \/ \E t \in PoolTagNames :
       \/ SeqStartTag(t)
       \/ PoolStartTag(t)
       \/ ListPage(t)
       \/ ListRaise(t)

PoolSpec == PoolInit /\ [][PoolNext]_vars

\* min(max(threads, 1), 8), written out
ClampedThreads(n) == IF n < 1 THEN 1 ELSE IF n > 8 THEN 8 ELSE n

\* C14: at every moment at most min(max(threads, 1), 8) tags are being crawled,
\* and at most one when threads <= 1.
C14_ConcurrencyCap ==
  /\ Cardinality(Running) <= ClampedThreads(cfg.threads)
  /\ cfg.threads <= 1 => Cardinality(Running) <= 1

\* with threads = 10 eight tags are being crawled and the ninth waits
C14_Witness ==
  /\ cfg.threads = MaxWorkers + 2
  /\ Cardinality(Running) = MaxWorkers
  /\ \E t \in PoolTagNames : job[t].pc = "pending"

(***************************************************************************)
(* parse_args alone.  --delay-min and --delay-max are read by float(): a   *)
(* value is a number of seconds or NaN ("nan" is a text that float()       *)
(* accepts).  A comparison with NaN is false.                              *)
(***************************************************************************)
Float(v) == [nan |-> FALSE, v |-> v]

NaN == [nan |-> TRUE, v |-> 0]

FloatValues == {NaN} \cup {Float(v) : v \in -1..3}

\* a <= b and a > b of two floats
FloatLe(a, b) == ~a.nan /\ ~b.nan /\ a.v <= b.v
FloatGt(a, b) == ~a.nan /\ ~b.nan /\ a.v > b.v

\* the defaults 1.0 and 2.0, to which the delays are reset
DefaultDelayMin == Float(1)
DefaultDelayMax == Float(2)

\* "if args.delay_min <= 0 or args.delay_max <= 0 or args.delay_min > args.delay_max"
DelaysReset(args) ==
  \/ FloatLe(args.delay_min, Float(0))
  \/ FloatLe(args.delay_max, Float(0))
  \/ FloatGt(args.delay_min, args.delay_max)

\* parse_args: the Config of a command line
parse_args(args) ==
  [threads |-> args.threads,
   resume |-> args.resume,
   only_tags |-> args.only_tags,
   delay_min |-> IF DelaysReset(args) THEN DefaultDelayMin ELSE args.delay_min,
   delay_max |-> IF DelaysReset(args) THEN DefaultDelayMax ELSE args.delay_max]

Argvs ==
  [state : {"given"}, delay_min : FloatValues, delay_max : FloatValues,
   threads : {1, 2}, resume : BOOLEAN, only_tags : {<<>>}]

ArgsInit ==
  /\ cfg = DefaultConfig
  /\ site = SiteA
  /\ run = 1
  /\ phase = "exited"
  /\ exitCode = 0
  /\ items = <<>>
  /\ job = FreshJobs
  /\ dirs = {}
  /\ files = <<>>
  /\ markers = <<>>
  /\ before = <<>>
  /\ had = {}
  /\ faults = 0
  /\ call = NoCall
  /\ argv \in Argvs
  /\ ren = NoRen

\* main: "cfg = parse_args()"
ParseArgs ==
  /\ argv.state = "given"
  /\ cfg' = parse_args(argv)
  /\ argv' = [argv EXCEPT !.state = "parsed"]
  /\ UNCHANGED <<site, run, phase, exitCode, items, before, had, job, fsVars, faults, call, ren>>

ArgsNext == ParseArgs

ArgsSpec == ArgsInit /\ [][ArgsNext]_vars

\* C18: if delay_min > delay_max or one of the two is <= 0 the Config has the
\* delays 1.0 and 2.0, otherwise the two values of the command line; and in
\* every Config 0 < delay_min <= delay_max.
C18_DelaysValid ==
  argv.state = "parsed" =>
    /\ IF \/ FloatGt(argv.delay_min, argv.delay_max)
          \/ FloatLe(argv.delay_min, Float(0))
          \/ FloatLe(argv.delay_max, Float(0))
         THEN cfg.delay_min = Float(1) /\ cfg.delay_max = Float(2)
         ELSE cfg.delay_min = argv.delay_min /\ cfg.delay_max = argv.delay_max
    /\ FloatGt(cfg.delay_min, Float(0))
    /\ FloatLe(cfg.delay_min, cfg.delay_max)

(***************************************************************************)
(* rename_articles.py.  A file name is a sequence of characters in which   *)
(* an article identifier "[p<digits>]" counts as one element and the       *)
(* extension as the last.  The tree maps each path to the file it holds,   *)
(* named by the path it had at the start.                                  *)
(***************************************************************************)
IdTokens == {"[p1]", "[p2]"}

\* the number of blanks at the start of s
RECURSIVE LeadingBlanks(_)
LeadingBlanks(s) == IF s # <<>> /\ Head(s) = " " THEN 1 + LeadingBlanks(Tail(s)) ELSE 0

\* re.sub(r'\s*\[p\d+\]\s*', '', filename)
RECURSIVE remove_article_id_suffix(_)
remove_article_id_suffix(s) ==
  IF s = <<>> THEN <<>>
  ELSE LET k == LeadingBlanks(s)
       IN  IF k < Len(s) /\ s[k + 1] \in IdTokens
             THEN remove_article_id_suffix(LStrip(SubSeq(s, k + 2, Len(s))))
           ELSE IF k > 0
             THEN SubSeq(s, 1, k) \o remove_article_id_suffix(SubSeq(s, k + 1, Len(s)))
           ELSE <<Head(s)>> \o remove_article_id_suffix(Tail(s))

RenPath(dir, name) == [dir |-> dir, name |-> name]

\* file_path.suffix.lower() in file_extensions, the default list
Extensions == {".md", ".html", ".txt"}

HasExtension(path) == path.name[Len(path.name)] \in Extensions

\* A test that never finds the target.
TargetNeverExists(tree, new_path) == FALSE

\* new_path.exists()
TargetExists(tree, new_path) == new_path \in DOMAIN tree

\* file_path.rename(new_path)
Rename(tree, file_path, new_path) ==
  [p \in (DOMAIN tree \ {file_path}) \cup {new_path} |->
     IF p = new_path THEN tree[file_path] ELSE tree[p]]

\* process_file: the tree after the call
process_file(tree, file_path, dry_run) ==
  LET cleaned_name == remove_article_id_suffix(file_path.name)
      new_path == RenPath(file_path.dir, cleaned_name)
  IN  IF cleaned_name = file_path.name THEN tree
      ELSE IF TargetExists(tree, new_path) THEN tree
      ELSE IF dry_run THEN tree
      ELSE Rename(tree, file_path, new_path)

RenNames ==
  {<<"x", " ", "[p1]", ".md">>, <<"x", " ", "[p2]", ".md">>, <<"x", ".md">>,
   <<"x", "[p1]", ".log">>}

RenPaths == {RenPath("r", n) : n \in RenNames} \cup {RenPath("s", <<"x", " ", "[p1]", ".md">>)}

\* the sequences that list each element of S once
Orders(S) == {q \in [1..Cardinality(S) -> S] : Range(q) = S}

RenInit ==
  /\ cfg = DefaultConfig
  /\ site = SiteA
  /\ run = 1
  /\ phase = "exited"
  /\ exitCode = 0
  /\ items = <<>>
  /\ job = FreshJobs
  /\ dirs = {}
  /\ files = <<>>
  /\ markers = <<>>
  /\ before = <<>>
  /\ had = {}
  /\ faults = 0
  /\ call = NoCall
  /\ argv = NoArgv
  /\ \E S \in SUBSET RenPaths, dry_run \in BOOLEAN :
       \E q \in Orders(S) :
         ren = [state |-> "walk", tree |-> [p \in S |-> p], todo |-> q,
                dry_run |-> dry_run, success_count |-> 0, total_count |-> 0]

\* process_directory: one round of "for file_path in directory.rglob('*')"
RenameStep ==
  /\ ren.state = "walk"
  /\ ren.todo # <<>>
  /\ LET file_path == Head(ren.todo)
         tree == process_file(ren.tree, file_path, ren.dry_run)
         cleaned == RenPath(file_path.dir, remove_article_id_suffix(file_path.name))
         ok == cleaned = file_path \/ ~TargetExists(ren.tree, cleaned)
     IN  ren' = IF HasExtension(file_path)
                  THEN [ren EXCEPT !.tree = tree, !.todo = Tail(@),
                                   !.total_count = @ + 1,
                                   !.success_count = IF ok THEN @ + 1 ELSE @]
                  ELSE [ren EXCEPT !.todo = Tail(@)]
  /\ UNCHANGED <<mainVars, site, job, fsVars, faults, call, argv>>

\* process_directory returns the two counts
RenameDone ==
  /\ ren.state = "walk"
  /\ ren.todo = <<>>
  /\ ren' = [ren EXCEPT !.state = "done"]
  /\ UNCHANGED <<mainVars, site, job, fsVars, faults, call, argv>>

RenNext == RenameStep \/ RenameDone

RenameSpec == RenInit /\ [][RenNext]_vars

Held(tree) == {tree[p] : p \in DOMAIN tree}

\* C19: a step of the cleanup utility leaves the number of files of the tree and
\* the files themselves as they are, and a path that exists before and after the
\* step holds the same file: no rename lands on a name that exists.
C19_RenameNeverReplaces ==
  [][/\ Cardinality(DOMAIN ren'.tree) = Cardinality(DOMAIN ren.tree)
     /\ Held(ren'.tree) = Held(ren.tree)
     /\ \A p \in DOMAIN ren.tree \cap DOMAIN ren'.tree : ren'.tree[p] = ren.tree[p]]_vars

\* execute mode, two files of one directory with the same cleaned name: the one
\* visited second kept its name, next to the one that was renamed
C19_Witness ==
  /\ ren.state = "done"
  /\ ~ren.dry_run
  /\ RenPath("r", <<"x", ".md">>) \in DOMAIN ren.tree
  /\ ren.tree[RenPath("r", <<"x", ".md">>)] = RenPath("r", <<"x", " ", "[p2]", ".md">>)
  /\ RenPath("r", <<"x", " ", "[p1]", ".md">>) \in DOMAIN ren.tree
  /\ ren.success_count < ren.total_count

(***************************************************************************)
(* Properties.                                                             *)
(***************************************************************************)
ArticlePcs == {"loop", "fetch", "save_check", "save_open", "save_write", "mark"}

\* the steps of an iteration that request the article or write its file or marker
WorkPcs == {"fetch", "save_check", "save_open", "save_write", "mark"}

\* C1: a done marker exists only if, in the iteration that created it,
\* save_article_to_markdown had returned before the marker was written.
C1_MarkerOnlyAfterSave == \A m \in DOMAIN markers : markers[m].after_save

\* a marker exists although an operation of the run has failed
C1_Witness == markers # <<>> /\ faults > 0 /\ run = 1

\* C2: in a run with resume enabled no article whose done marker existed when the
\* run started is requested, and neither its file nor its marker is written.
C2_NoRefetchWithResume ==
  \A t \in TagNames :
    (cfg.resume /\ job[t].pc \in WorkPcs) => MarkerOf(t) \notin DOMAIN before

\* a second run with resume enabled has gone through a tag whose two links both
\* had their marker from the first run
C2_Witness ==
  /\ run = 2
  /\ cfg.resume
  /\ job[T1].pc = "done"
  /\ Len(job[T1].all_links) = 2
  /\ \A i \in 1..2 :
       get_done_marker_path(T1, extract_article_id(job[T1].all_links[i])) \in DOMAIN before

\* C3: when the run has ended after a successful discovery, every discovered tag
\* was crawled (to its end or to its failure), none was left out.
C3_OtherTagsStillCrawled ==
  (phase = "exited" /\ items # <<>>) =>
    \A i \in DOMAIN items : job[items[i]].pc \in {"done", "failed"}

\* C4: when tag discovery succeeded the run exits with status zero.
C4_ExitZeroAfterDiscovery == (phase = "exited" /\ items # <<>>) => exitCode = 0

\* C5: a step of the loop over the links never ends crawl_single_tag early: the
\* call stays in the loop, at the same link or at the next one, and returns only
\* past the last link; the run goes on.
C5_ArticleFailureContained ==
  [][\A t \in TagNames :
       (job[t].pc \in ArticlePcs /\ job'[t] # job[t]) =>
         /\ job'[t].pc \in ArticlePcs \cup {"done"}
         /\ job'[t].all_links = job[t].all_links
         /\ job'[t].idx \in {job[t].idx, job[t].idx + 1}
         /\ job'[t].pc = "done" <=> job'[t].idx > Len(job[t].all_links)
         /\ phase' = "crawl"]_vars

\* in a first run the second link of a tag is being requested although the first
\* left no file and no marker: its iteration failed
C5_Witness ==
  /\ run = 1
  /\ Len(job[T1].all_links) = 2
  /\ job[T1].idx = 2
  /\ job[T1].pc = "fetch"
  /\ files = <<>>
  /\ markers = <<>>

\* C6: every open for writing of save_article_to_markdown is of a path that does
\* not exist at that moment.
C6_NeverOverwrites ==
  [][\A t \in TagNames :
       (job[t].pc = "save_open" /\ job'[t].pc = "save_write")
         => PathOf(t) \notin DOMAIN files]_vars

IsRequestError(resp) ==
  resp.exc = "RequestException" \/ (resp.exc = "none" /\ resp.status >= 400)

IsSuccess(resp) == resp.exc = "none" /\ resp.status < 400

\* C10: a call of get makes at most 3 attempts, each but the first after an
\* attempt that failed with RequestError; it returns when an attempt succeeds,
\* raises RequestError exactly when 3 attempts failed with RequestError, and
\* lets another exception out at the attempt that raised it.
C10_RetryPolicy ==
  call.state = "done" =>
    /\ call.attempts \in 1..3
    /\ \A i \in 1..(call.attempts - 1) : IsRequestError(call.resps[i])
    /\ call.result = "return" <=> IsSuccess(call.resps[call.attempts])
    /\ call.result = "raise" <=>
         (call.attempts = 3 /\ \A i \in 1..3 : IsRequestError(call.resps[i]))
    /\ call.result = "propagate" <=>
         (~IsSuccess(call.resps[call.attempts])
            /\ ~IsRequestError(call.resps[call.attempts]))
    /\ call.result \in {"return", "raise", "propagate"}

\* a call that raised after a transport failure and two bad statuses
C10_Witness ==
  /\ call.state = "done"
  /\ call.result = "raise"
  /\ call.resps[1].exc = "RequestException"
  /\ call.resps[2].status = 400
  /\ call.resps[3].status = 503

\* the article identifier of link number i of a tag's list
LinkId(t, i) == extract_article_id(job[t].all_links[i])

\* no link before the current one of the tag's list has its article identifier
NotYetHandled(t) == \A k \in 1..(job[t].idx - 1) : LinkId(t, k) # LinkId(t, job[t].idx)

\* C11: resume and save state is separate per tag.  In a first run, over an
\* empty output directory, a tag that has not handled an article yet finds no
\* marker of it at its resume check and finds its file name free when it saves:
\* what another tag wrote never makes it skip or take a numeric suffix.
C11_PerTagState ==
  \A t \in TagNames :
    (run = 1 /\ job[t].pc \in {"loop", "save_check"} /\ NotYetHandled(t)) =>
      /\ (job[t].pc = "loop" /\ cfg.resume) => MarkerOf(t) \notin DOMAIN markers
      /\ job[t].pc = "save_check" => PathOf(t) \notin DOMAIN files

\* C12: a file that no writer holds open is fully written, and a resume check
\* that finds a marker finds no partly written file of that article.
C12_NoPartialFile ==
  /\ \A p \in DOMAIN files : files[p].writer = NoWriter => files[p].state = "full"
  /\ \A t \in TagNames :
       (job[t].pc = "loop" /\ cfg.resume /\ MarkerOf(t) \in DOMAIN markers) =>
         \A p \in DOMAIN files :
           (p.dir = MarkerOf(t).dir /\ p.id = MarkerOf(t).id) => files[p].state # "partial"

\* C13: every discovered tag is crawled exactly once per run: no call of
\* crawl_single_tag is started twice for a tag, and when the run has ended after a
\* successful discovery each discovered tag was started once.
C13_EachTagOncePerRun ==
  /\ \A t \in TagNames : job[t].starts <= 1
  /\ (phase = "exited" /\ items # <<>>) =>
       \A i \in DOMAIN items : job[items[i]].starts = 1

\* the tag shares its directory with no other discovered tag
OwnDir(t) ==
  \A i \in DOMAIN items :
    items[i] # t => sanitize_filename(items[i]) # sanitize_filename(t)

DistinctIds(t) ==
  \A i, k \in DOMAIN job[t].all_links : i # k => LinkId(t, i) # LinkId(t, k)

ArticleOfLink(t, i) == site.articles[job[t].all_links[i].n]

FileOfLink(t, i) == SavePath(t, extract_title(ArticleOfLink(t, i)), LinkId(t, i), 0)

MarkerOfLink(t, i) == get_done_marker_path(t, LinkId(t, i))

\* C15: within a tag the links are handled in the order of the list.  In a first
\* run, for a tag with its own directory and distinct articles: while the loop is
\* at link idx no later link has a file or a marker, and when nothing has failed
\* every earlier link has its full file and its marker.
C15_DiscoveryOrder ==
  \A t \in TagNames :
    (run = 1 /\ job[t].pc \in ArticlePcs \cup {"done"} /\ OwnDir(t) /\ DistinctIds(t)) =>
      \A i \in DOMAIN job[t].all_links :
        /\ i > job[t].idx =>
             /\ FileOfLink(t, i) \notin DOMAIN files
             /\ MarkerOfLink(t, i) \notin DOMAIN markers
        /\ (i < job[t].idx /\ faults = 0 /\ ArticleOfLink(t, i).has_body) =>
             /\ FileOfLink(t, i) \in DOMAIN files
             /\ files[FileOfLink(t, i)].state = "full"
             /\ MarkerOfLink(t, i) \in DOMAIN markers

\* two listing pages, articles 1 and 2 on the first and 3 on the second: the tag
\* is through, with three files and three markers
C15_Witness ==
  /\ site = SiteD
  /\ run = 1
  /\ faults = 0
  /\ job[T3].pc = "done"
  /\ [i \in 1..3 |-> LinkId(T3, i)] = <<1, 2, 3>>
  /\ Cardinality(DOMAIN files) = 3
  /\ Cardinality(DOMAIN markers) = 3

\* C16: a run whose tag discovery fails ends there with a non-zero status: no
\* call of crawl_single_tag is started, no file and no marker is written.
C16_DiscoveryFailureAborts ==
  [][(phase = "discover" /\ phase' = "exited") =>
       /\ exitCode' # 0
       /\ items' = <<>>
       /\ \A t \in TagNames : job'[t].pc = "idle"
       /\ files' = files
       /\ markers' = markers]_vars

\* a second run, limited to a tag that the index page does not offer, has ended
\* with status 1 over the files of the first run
C16_Witness ==
  /\ run = 2
  /\ cfg.only_tags # <<>>
  /\ site.index.container
  /\ phase = "exited"
  /\ items = <<>>
  /\ exitCode = 1
  /\ files # <<>>
  /\ markers = before

\* C17 as stated: of two files of a sequential run that have the same directory
\* and the same sanitized title, one carries a numeric suffix.
C17_SecondSaveSuffixed ==
  cfg.threads <= 1 =>
    \A p1, p2 \in DOMAIN files :
      (p1 # p2 /\ p1.dir = p2.dir /\ p1.name = p2.name) => p1.index # p2.index

\* C17: in a sequential run a save opens a path that does not exist, the first of
\* name, name (1), name (2), ... that is free, where name is the sanitized title
\* followed by the article identifier " [p<id>]"; the files that exist keep their
\* content.
C17_CollisionSuffix ==
  [][\A t \in TagNames :
       (cfg.threads <= 1 /\ job[t].pc = "save_open" /\ job'[t].pc = "save_write") =>
         /\ PathOf(t) \notin DOMAIN files
         /\ \A k \in 0..(job[t].index - 1) :
              [PathOf(t) EXCEPT !.index = k] \in DOMAIN files
         /\ \A p \in DOMAIN files : files'[p] = files[p]]_vars

\* a sequential run has saved an article over its own earlier file: both the plain
\* name and the name with " (1)" hold the full text
C17_Witness ==
  /\ cfg.threads = 1
  /\ \E p \in DOMAIN files :
       /\ p.index = 1
       /\ files[p].state = "full"
       /\ [p EXCEPT !.index = 0] \in DOMAIN files
       /\ files[[p EXCEPT !.index = 0]].state = "full"

\* C20: a worker that is about to request a listing page or an article page has
\* called random_delay since its previous request.
C20_DelayBeforeFetch ==
  \A t \in TagNames : job[t].pc \in {"list", "fetch"} => job[t].delayed

\* the first article of a tag is about to be requested after its second, last
\* listing page
C20_Witness ==
  /\ site = SiteD
  /\ job[T3].pc = "fetch"
  /\ job[T3].idx = 1
  /\ job[T3].page_index = 2
  /\ job[T3].delayed

\* every link of a tag's list has an article identifier: get_article_links keeps
\* the URLs is_article_link accepts, and extract_article_id searches them with
\* the same expression
LinksHaveIds ==
  \A t \in TagNames : \A i \in DOMAIN job[t].all_links : LinkId(t, i) # NoId

\* the plain path, without numeric suffix, of the file of the current link
EarlierFile(t) == FileOfLink(t, job[t].idx)

\* the current article was left by an earlier run with its file and no marker
Inherited(t) ==
  /\ EarlierFile(t) \in had
  /\ MarkerOf(t) \notin DOMAIN before

\* a step of a later run with resume enabled on an article left that way: from
\* the loop it goes to the request (unless the marker was written in between),
\* and its open creates a path with a numeric suffix, every file that exists
\* staying as it is
ResaveStep ==
  \A t \in TagNames :
    (/\ run > 1
     /\ cfg.resume
     /\ job[t].pc \in ArticlePcs
     /\ Inherited(t)
     /\ job'[t] # job[t]) =>
      /\ (job[t].pc = "loop" /\ MarkerOf(t) \notin DOMAIN markers) =>
            job'[t].pc = "fetch"
      /\ job[t].pc = "save_open" =>
            /\ job[t].index >= 1
            /\ PathOf(t) \notin DOMAIN files
            /\ \A p \in DOMAIN files : files'[p] = files[p]

\* C22: in a later run with resume enabled, an article whose file an earlier run
\* wrote without its marker is requested again, and its save opens a new path
\* with a numeric suffix and leaves every file that exists as it is.
C22_ResaveKeepsFiles == [][ResaveStep]_vars

\* the same for the runs with one worker, where no two saves overlap
C22_ResaveSequential == [][cfg.threads = 1 => ResaveStep]_vars

\* a run with one worker has opened the suffixed file of an article left by an
\* earlier run
C22_SequentialCase ==
  /\ run > 1
  /\ cfg.resume
  /\ cfg.threads = 1
  /\ \E t \in TagNames :
       /\ job[t].pc = "save_write"
       /\ Inherited(t)
       /\ job[t].index >= 1

\* the current link of the loop has the article identifier of an earlier link
DupOfEarlier(t) ==
  /\ job[t].pc = "loop"
  /\ \E k \in 1..(job[t].idx - 1) : LinkId(t, k) = LinkId(t, job[t].idx)

\* C23: when the loop reaches a link with the identifier of an earlier link of
\* the list, then with resume enabled the marker of the earlier one exists (in a
\* first run in which nothing has failed) and the link is skipped: it is not
\* requested and nothing is written; with resume disabled it is requested, and
\* at the end of the tag the article has two files.
C23_SameIdSkipped ==
  [][\A t \in TagNames :
       /\ DupOfEarlier(t) =>
            /\ (cfg.resume /\ run = 1 /\ faults = 0) => MarkerOf(t) \in DOMAIN markers
            /\ (cfg.resume /\ MarkerOf(t) \in DOMAIN markers /\ job'[t] # job[t]) =>
                 /\ job'[t].idx = job[t].idx + 1
                 /\ job'[t].pc \in {"loop", "done"}
                 /\ files' = files
                 /\ markers' = markers
            /\ (~cfg.resume /\ job'[t] # job[t]) => job'[t].pc = "fetch"
       /\ (/\ ~cfg.resume /\ run = 1 /\ faults = 0
           /\ job[t].pc = "done"
           /\ Len(job[t].all_links) = 2
           /\ LinkId(t, 1) = LinkId(t, 2)) =>
             Cardinality({p \in DOMAIN files :
                            p.dir = sanitize_filename(t) /\ p.id = LinkId(t, 1)}) >= 2]_vars

\* a sequential first run with resume enabled is through the tag a/b, whose two
\* links have the identifier 1: one file and one marker
C23_Witness ==
  /\ run = 1
  /\ cfg.resume
  /\ cfg.threads = 1
  /\ faults = 0
  /\ job[T1].pc = "done"
  /\ job[T2].pc = "pending"
  /\ Len(job[T1].all_links) = 2
  /\ LinkId(T1, 1) = LinkId(T1, 2)
  /\ Cardinality(DOMAIN files) = 1
  /\ Cardinality(DOMAIN markers) = 1

\* C24: with resume disabled the loop goes from each link to its request
\* without a look at the marker (the marker directory is not even created),
\* a save that succeeds is followed by the marker step, and the marker step
\* that succeeds leaves the marker in place.
C24_NoResumeIgnoresMarkers ==
  [][\A t \in TagNames :
       (~cfg.resume /\ job'[t] # job[t]) =>
         /\ job[t].pc = "loop" =>
              /\ job'[t].pc = "fetch"
              /\ job'[t].idx = job[t].idx
              /\ dirs' = dirs
         /\ (job[t].pc = "save_write" /\ faults' = faults) => job'[t].pc = "mark"
         /\ (job[t].pc = "mark" /\ faults' = faults) =>
              MarkerOf(t) \in DOMAIN markers']_vars

\* a second run, with resume disabled, has saved an article again whose marker
\* existed when the run started, under a name with a numeric suffix, and is
\* about to write the marker
C24_Witness ==
  /\ run = 2
  /\ ~cfg.resume
  /\ job[T3].pc = "mark"
  /\ MarkerOf(T3) \in DOMAIN before
  /\ job[T3].index >= 1
  /\ PathOf(T3) \in DOMAIN files

=============================================================================
